---------------------------- MODULE Spec2Model ----------------------------
(***************************************************************************)
(* Boyer-Moore (bad-character rule only) string search of                  *)
(* src/Boyer_Moore/main.cpp: class StringFinder.                           *)
(*                                                                         *)
(* A string is a sequence of byte values 0..255 (TLA+ sequences are        *)
(* 1-based, C++ strings 0-based: At(s, i) is s[i] of the source).          *)
(* The state is one StringFinder object plus the position of the call      *)
(* that is executing on it.  The scan of search() is modelled loop step by *)
(* loop step, so that every array access of the scan is a state.           *)
(*                                                                         *)
(* The source subscripts the 256-entry table with a plain char.  Whether   *)
(* char is signed is a property of the build (charSigned).  On a build     *)
(* with signed char a byte value above 127 is a negative subscript: the    *)
(* store of badCharacterPreprocessing and the load of search() then lie    *)
(* below the array.  Such a store leaves the 256 entries as they are, and  *)
(* such a load yields whatever the memory there holds at that moment       *)
(* (Garbage).  int is 32 bits wide and wraps around.  A read of the text   *)
(* outside its buffer faults or yields some byte.                          *)
(***************************************************************************)
EXTENDS Integers, Sequences, FiniteSets, TLC

(***************************************************************************)
(* Bounds of the model.                                                    *)
(***************************************************************************)
MaxTextLen == 4
MaxPatLen == 3
\* Number of reads outside the text buffer that one call is followed through
\* when they do not fault.
MaxWild == 1

\* The byte values strings are built from: one 7-bit value and one value
\* above 127.
Bytes == {97, 200}

\* int: 32 bits, two's complement.
IntMax == 2147483647
IntMin == (-IntMax) - 1

POSSIBLE_CHARACTERS == 256

\* return -1;  "Pattern not found in text"
NotFound == -1

\* Content of result before any call has returned: no return value of search().
NoResult == NotFound - 1

\* Values an int outside the table may hold when the scan loads it: a value
\* far below every table entry, a value just below them, the value of an
\* absent character, a pattern index.
Garbage == {IntMin + 1, -2, -1, 1}

\* The valid subscripts of int m_lastOccurrences[256].
TableIdx == 0..(POSSIBLE_CHARACTERS - 1)

SeqsUpTo(S, n) == UNION {[1..k -> S] : k \in 0..n}

Texts == SeqsUpTo(Bytes, MaxTextLen)
Patterns == SeqsUpTo(Bytes, MaxPatLen)

VARIABLES
    charSigned,         \* the build: is plain char a signed type?
    m_text,
    m_pattern,
    m_lastOccurrences,  \* the 256 entries of the array
    pc,                 \* "idle" (no call executing), "outer", "inner",
                        \* "after" (positions in search()), "fault" (the
                        \* process was killed by a memory fault)
    skip,               \* local of search(); 0 while no call executes
    p,                  \* local of search(); 0 while no call executes
    op,                 \* "none", "search" or "searchNew": the latest call
    result,             \* value returned by the latest completed call, or
                        \* NoResult before the first return
    wild                \* reads outside the text buffer the executing call
                        \* has got a byte from

vars == <<charSigned, m_text, m_pattern, m_lastOccurrences,
          pc, skip, p, op, result, wild>>

\* a + b in int arithmetic.
Add32(a, b) ==
    IF b > 0 /\ a > IntMax - b THEN (a + IntMin) + (b + IntMin)
    ELSE IF b < 0 /\ a < IntMin - b THEN (a - IntMin) + (b - IntMin)
    ELSE a + b

\* a - b in int arithmetic.
Sub32(a, b) ==
    IF b = IntMin THEN Add32(Add32(a, IntMax), 1) ELSE Add32(a, -b)

\* s[i] of a std::string s for an index i of the string.
At(s, i) == s[i + 1]

\* i is an index std::string::operator[] is defined for (s[s.size()] is the
\* terminator).
InBuffer(s, i) == i \in 0..Len(s)

\* The values a read of s[i] can yield.
ReadAt(s, i) ==
    IF i \in 0..(Len(s) - 1) THEN {At(s, i)}
    ELSE IF i = Len(s) THEN {0}
    ELSE Bytes

\* The subscript a char converts to when it is used as an array index
\* (integral promotion of char to int): a signed char holding a byte
\* value above 127 is negative.
CharToIndex(c) == IF charSigned /\ c >= 128 THEN c - 256 ELSE c

\* m_lastOccurrences[idx] = v: a subscript outside 0..255 addresses memory
\* that is no entry of the table.
Store(tbl, idx, v) == IF idx \in TableIdx THEN [tbl EXCEPT ![idx] = v] ELSE tbl

\* The values a load of m_lastOccurrences[idx] can yield.
Load(tbl, idx) == IF idx \in TableIdx THEN {tbl[idx]} ELSE Garbage

\* Second loop of badCharacterPreprocessing, from index i on.
RECURSIVE LastOccurrenceLoop(_, _, _)
LastOccurrenceLoop(tbl, pat, i) ==
    IF i < Len(pat)
    THEN LastOccurrenceLoop(Store(tbl, CharToIndex(At(pat, i)), i), pat, i + 1)
    ELSE tbl

\* First loop of badCharacterPreprocessing: every entry is -1.
FilledTable == [c \in TableIdx |-> -1]

\* badCharacterPreprocessing(): fills the 256 entries with -1 and then
\* records the index of every pattern character.
badCharacterPreprocessing(pat) == LastOccurrenceLoop(FilledTable, pat, 0)

\* int maxSkip = textSize - patternSize;
maxSkip == Len(m_text) - Len(m_pattern)

\* Lines 134-138: the value of skip after a bad character at pattern index
\* pp whose table entry is L.
Advance(s, pp, L) ==
    LET update == Sub32(pp, L)
    IN  IF update >= 1 THEN Add32(s, update) ELSE Add32(s, 1)

----------------------------------------------------------------------------
(***************************************************************************)
(* The constructor has run: the members are set and the table is built.    *)
(***************************************************************************)
Init ==
    /\ charSigned \in BOOLEAN
    /\ m_text \in Texts
    /\ m_pattern \in Patterns
    /\ m_lastOccurrences = badCharacterPreprocessing(m_pattern)
    /\ pc = "idle"
    /\ skip = 0
    /\ p = 0
    /\ op = "none"
    /\ result = NoResult
    /\ wild = 0

\* Variant of Enter without the test for the empty pattern.
Enter_NoEmptyTest(pat) ==
    /\ skip' = 0
    /\ pc' = "outer"
    /\ wild' = 0
    /\ UNCHANGED <<result, p>>

\* Lines 90-101 of search(), run on a pattern pat: the empty pattern
\* returns -1 at once, any other pattern starts the scan at skip = 0.
Enter(pat) ==
    IF Len(pat) = 0
    THEN /\ result' = NotFound
         /\ pc' = "idle"
         /\ UNCHANGED <<skip, p, wild>>
    ELSE /\ skip' = 0
         /\ pc' = "outer"
         /\ wild' = 0
         /\ UNCHANGED <<result, p>>

\* A call of search().
Search ==
    /\ pc = "idle"
    /\ op' = "search"
    /\ Enter(m_pattern)
    /\ UNCHANGED <<charSigned, m_text, m_pattern, m_lastOccurrences>>

\* A call of search(newPattern).
SearchNew ==
    /\ pc = "idle"
    /\ \E newPattern \in Patterns :
         /\ m_pattern' = newPattern
         /\ m_lastOccurrences' = badCharacterPreprocessing(newPattern)
         /\ Enter(newPattern)
    /\ op' = "searchNew"
    /\ UNCHANGED <<charSigned, m_text>>

\* while (skip <= maxSkip): enter the body, or leave the loop and return -1.
OuterTest ==
    /\ pc = "outer"
    /\ IF skip <= maxSkip
       THEN /\ p' = Len(m_pattern) - 1
            /\ pc' = "inner"
            /\ UNCHANGED <<result, skip>>
       ELSE /\ result' = NotFound
            /\ pc' = "idle"
            /\ skip' = 0
            /\ p' = 0
    /\ UNCHANGED <<charSigned, m_text, m_pattern, m_lastOccurrences, op, wild>>

\* The read of m_text[skip + p] by the executing call: it yields c.  A read
\* outside the buffer is followed MaxWild times per call.
ReadsText(c) ==
    /\ c \in ReadAt(m_text, skip + p)
    /\ IF InBuffer(m_text, skip + p)
       THEN UNCHANGED wild
       ELSE wild < MaxWild /\ wild' = wild + 1

\* The read of m_text[skip + p] faults.
TextFault ==
    /\ ~InBuffer(m_text, skip + p)
    /\ pc' = "fault"
    /\ UNCHANGED <<skip, p, result, wild>>

\* One test of while (p >= 0) and, inside, of the comparison of line 113.
InnerStep ==
    /\ pc = "inner"
    /\ IF p >= 0
       THEN \/ TextFault
            \/ /\ \E c \in Bytes \cup {0} :
                    /\ ReadsText(c)
                    /\ IF c # At(m_pattern, p)
                       THEN pc' = "after" /\ UNCHANGED p
                       ELSE p' = p - 1 /\ UNCHANGED pc
               /\ UNCHANGED <<skip, result>>
       ELSE pc' = "after" /\ UNCHANGED <<skip, p, result, wild>>
    /\ UNCHANGED <<charSigned, m_text, m_pattern, m_lastOccurrences, op>>

\* Lines 120-138: return skip on a full match, else advance skip by the
\* table entry of the bad character m_text[skip + p].
AfterInner ==
    /\ pc = "after"
    /\ IF p < 0
       THEN /\ result' = skip
            /\ pc' = "idle"
            /\ skip' = 0
            /\ p' = 0
            /\ UNCHANGED wild
       ELSE \/ TextFault
            \/ /\ \E c \in Bytes \cup {0} :
                    /\ ReadsText(c)
                    /\ \E L \in Load(m_lastOccurrences, CharToIndex(c)) :
                          skip' = Advance(skip, p, L)
               /\ pc' = "outer"
               /\ UNCHANGED <<result, p>>
    /\ UNCHANGED <<charSigned, m_text, m_pattern, m_lastOccurrences, op>>

Next == Search \/ SearchNew \/ OuterTest \/ InnerStep \/ AfterInner

Spec == Init /\ [][Next]_vars

\* The program built with an unsigned plain char only.
UnsignedSpec == (Init /\ ~charSigned) /\ [][Next]_vars

----------------------------------------------------------------------------
(***************************************************************************)
(* search() as a function of the object it runs on, for an object whose    *)
(* loads below the table all yield g: the value the scan returns, computed *)
(* alignment by alignment as lines 87-142 compute it.  Defined for the g   *)
(* that keep skip within the text (no int overflow).                       *)
(***************************************************************************)

\* The inner loop of lines 111-116 at alignment s, from pattern index pp on:
\* the index it stops at (-1 when the pattern is exhausted).
RECURSIVE InnerLoop(_, _, _, _)
InnerLoop(t, pat, s, pp) ==
    IF pp >= 0 /\ At(t, s + pp) = At(pat, pp)
    THEN InnerLoop(t, pat, s, pp - 1)
    ELSE pp

\* The table entry the scan gets for byte value c.
Entry(tbl, g, c) ==
    IF CharToIndex(c) \in TableIdx THEN tbl[CharToIndex(c)] ELSE g

\* The outer loop of lines 103-141 from alignment s on.
RECURSIVE OuterLoop(_, _, _, _, _)
OuterLoop(t, pat, tbl, g, s) ==
    IF s <= Len(t) - Len(pat)
    THEN LET pp == InnerLoop(t, pat, s, Len(pat) - 1)
         IN  IF pp < 0
             THEN s
             ELSE OuterLoop(t, pat, tbl, g,
                            Advance(s, pp, Entry(tbl, g, At(t, s + pp))))
    ELSE NotFound

\* StringFinder(t, pat).search().
FreshSearch(t, pat, g) ==
    IF Len(pat) = 0
    THEN NotFound
    ELSE OuterLoop(t, pat, badCharacterPreprocessing(pat), g, 0)

----------------------------------------------------------------------------
(***************************************************************************)
(* Vocabulary of the properties.                                           *)
(***************************************************************************)

\* The latest call has returned and result holds its value.
Returned == pc = "idle" /\ op # "none"

\* The latest call has ended: it returned, or the process was killed in it.
Ended == op # "none" /\ (pc = "idle" \/ pc = "fault")

\* The current pattern stands in the text at offset s.
MatchAt(s) ==
    /\ s \in 0..(Len(m_text) - Len(m_pattern))
    /\ \A k \in 0..(Len(m_pattern) - 1) : At(m_text, s + k) = At(m_pattern, k)

\* The current pattern is a substring of the text.
Occurs == \E s \in 0..Len(m_text) : MatchAt(s)

\* Highest index of byte value c in pat, or -1.
LastIndexOf(pat, c) ==
    LET at == {i \in 0..(Len(pat) - 1) : At(pat, i) = c}
    IN  IF at = {} THEN -1 ELSE CHOOSE i \in at : \A j \in at : j <= i

\* A call is executing the scan.
Scanning == pc \in {"outer", "inner", "after"}

\* The values below the table that keep FreshSearch within the text.
SmallGarbage == {g \in Garbage : g >= -2}

----------------------------------------------------------------------------
\* C1: when a non-empty pattern occurs in the text, the call ends by
\* returning the smallest offset at which the pattern stands in the text.
C1_FirstOccurrence ==
    (Ended /\ Len(m_pattern) > 0 /\ Occurs) =>
        /\ Returned
        /\ MatchAt(result)
        /\ \A s \in 0..(result - 1) : ~MatchAt(s)

\* C2: when the pattern does not occur in the text (a pattern longer than
\* the text included), the call ends by returning -1.
C2_NotFound == (Ended /\ ~Occurs) => (Returned /\ result = -1)

\* C3: when the current pattern is empty, the call ends by returning -1,
\* whatever the text.
C3_EmptyPattern ==
    (Ended /\ Len(m_pattern) = 0) => (Returned /\ result = -1)

\* C3 witness: a search() and a search(newPattern) on the empty pattern have
\* returned -1, on a non-empty text (the state after the second of them).
C3_Witness ==
    /\ Returned
    /\ Len(m_pattern) = 0
    /\ Len(m_text) > 0
    /\ result = -1

\* C4: the value a call returned is the value search() returns on a freshly
\* constructed StringFinder holding the same text and the current pattern,
\* whatever the memory the new object lies in.
C4_SameAsFresh ==
    Returned =>
        \A g \in SmallGarbage : result = FreshSearch(m_text, m_pattern, g)

\* C5: every step of search() leaves the text, the pattern and the 256 table
\* entries unchanged; no step of any call changes the text; and a search()
\* that returns after an earlier call returned, returns the value of that
\* earlier call.
C5_SearchPure ==
    [][ /\ m_text' = m_text
        /\ op' = "search" =>
              /\ m_pattern' = m_pattern
              /\ m_lastOccurrences' = m_lastOccurrences
        /\ (op' = "search" /\ pc' = "idle" /\ result # NoResult) =>
              result' = result ]_vars

\* C6: an iteration of the outer loop that does not return advances skip by
\* at least 1; skip never decreases while a call executes; the loop is left
\* once skip > maxSkip.
C6_Progress ==
    [][ /\ (pc = "after" /\ pc' = "outer") => skip' >= skip + 1
        /\ (Scanning /\ pc' # "idle") => skip' >= skip
        /\ (pc = "outer" /\ skip > Len(m_text) - Len(m_pattern)) =>
              pc' = "idle" ]_vars

\* C7: for each of the 256 byte values, the table entry is the highest index
\* of the value in the current pattern, or -1 when the pattern lacks it.
C7_TableConsistent ==
    \A c \in TableIdx : m_lastOccurrences[c] = LastIndexOf(m_pattern, c)

\* C8: while the scan runs, the pattern stands at no alignment smaller than
\* the current skip.
C8_NoMatchSkipped ==
    Scanning =>
        \A s \in 0..(Len(m_text) - Len(m_pattern)) : s < skip => ~MatchAt(s)

\* C9: every subscript used on the table is in 0..255: the subscripts
\* written for the characters of the pattern and the subscript read for the
\* bad character of the scan.
C9_IndexInRange ==
    /\ \A i \in 0..(Len(m_pattern) - 1) :
          CharToIndex(At(m_pattern, i)) \in TableIdx
    /\ (pc = "after" /\ p >= 0) =>
          \A c \in ReadAt(m_text, skip + p) : CharToIndex(c) \in TableIdx

\* C10: whenever the scan reads m_text[skip + p] and m_pattern[p] (the
\* comparison of the inner loop, the lookup of the bad character), skip + p
\* is an index of the text and p an index of the pattern.
C10_AccessInBounds ==
    ((pc = "inner" \/ pc = "after") /\ p >= 0) =>
        /\ 0 <= skip + p
        /\ skip + p <= Len(m_text) - 1
        /\ p <= Len(m_pattern) - 1

=============================================================================
